---- MODULE Spec2Model ----
(***************************************************************************)
(* CreateSwitchPair.run (create_connected_switches.py): two devices are    *)
(* created, the first interface by name of each is cabled to the other,    *)
(* and the first free /31 of 10.0.0.0/8 is allocated to the two            *)
(* interfaces.  The inventory store (devices, interfaces, cables,          *)
(* prefixes, IP addresses, statuses) is shared by all invocations of the   *)
(* job; every ORM call of run() is one atomic step of the invocation that  *)
(* makes it.                                                               *)
(***************************************************************************)
EXTENDS Integers, Sequences, FiniteSets, TLC

\* ------------------------------------------------------------------ bounds
\* Number of job invocations.
MaxRuns == 2
\* Number of /31 subnets of the parent network that the model enumerates.
NumSub == 2
\* Number of distinct uuid suffixes a device name can get.
MaxSuffix == 2
\* Number of distinct interface names a new device can have.
MaxIf == 2

\* --------------------------------------------------------------- constants
\* ipaddress.ip_network("10.0.0.0/8"): first octet and prefix length.
ParentOctet == 10
ParentLen == 8
\* new_prefix=31
NewPrefix == 31

Runs == 1..MaxRuns
Suffixes == 1..MaxSuffix
IfNames == 1..MaxIf
SubIndex == 0..(NumSub - 1)

\* ------------------------------------------------------- values and strings
\* The integer value of the network address 10.0.0.0.
ParentBase == ParentOctet * 16777216

\* str() of an IPv4 address: the four octets of its integer value.
DottedQuad(n) ==
    << n \div 16777216, (n \div 65536) % 256, (n \div 256) % 256, n % 256 >>

\* "<address>/<length>" as the four octets followed by the length.
WithLen(n, len) == DottedQuad(n) \o << len >>

\* prefix="10.0.0.0/8"
ParentCidr == WithLen(ParentBase, ParentLen)

\* The k-th element of parent_network.subnets(new_prefix=31), as the integer
\* value of its network address: /31 subnets ascend in steps of 2^(32-31).
SubnetBase(k) == ParentBase + k * 2

\* list(candidate): the two addresses of the /31.
Ips(k) == << SubnetBase(k), SubnetBase(k) + 1 >>

\* ip_a = f"{ips[0]}/31"
IpA(k) == WithLen(Ips(k)[1], NewPrefix)

\* A slip: the second address is taken from ips[0] again.
IpBFromFirst(k) == WithLen(Ips(k)[1], NewPrefix)

\* ip_b = f"{ips[1]}/31"
IpB(k) == WithLen(Ips(k)[2], NewPrefix)

\* str(candidate)
SubnetStr(k) == WithLen(SubnetBase(k), NewPrefix)

\* Python None for a string-valued local.
NoStr == << >>

\* f"switch1-{uuid.uuid4().hex[:6]}"
DeviceName1(s) == << "switch1", s >>

\* A slip: the second name is built with the first name's prefix.
DeviceName2SamePrefix(s) == << "switch1", s >>

\* f"switch2-{uuid.uuid4().hex[:6]}"
DeviceName2(s) == << "switch2", s >>

NoError == [type |-> "", device |-> NoStr]

\* Python None for an object-valued local that is an interface.
NoIface == [device |-> NoStr, name |-> 0]

\* ------------------------------------------------------------------- state
VARIABLES
    statuses,    \* Status: the names in the status vocabulary
    devices,     \* Device: set of [name, status]
    interfaces,  \* Interface: set of [device, name]
    cables,      \* Cable: set of [termination_a, termination_b, status]
    prefixes,    \* Prefix: sequence (by primary key) of [prefix, description, status]
    addresses,   \* IPAddress: sequence (by primary key) of [address, status, interfaces]
    pc,          \* position of each invocation of run()
    err,         \* the exception that ended an invocation
    local,       \* the local variables of each invocation
    log,         \* self.logger.info records of each invocation
    output       \* the value returned by each invocation

store == << statuses, devices, interfaces, cables, prefixes, addresses >>
vars == << statuses, devices, interfaces, cables, prefixes, addresses,
           pc, err, local, log, output >>

\* ------------------------------------------------------------ ORM queries
\* A slip: the query matches nothing.
AddressExistsNever(addrs, a) == \E i \in 1..Len(addrs) : FALSE

\* IPAddress.objects.filter(address=a).exists()
AddressExists(addrs, a) == \E i \in 1..Len(addrs) : addrs[i].address = a

\* Prefix.objects.get(prefix=cidr): the primary key of the stored prefix, 0
\* for Prefix.DoesNotExist.
GetPrefix(pfx, cidr) ==
    IF \E i \in 1..Len(pfx) : pfx[i].prefix = cidr
    THEN CHOOSE i \in 1..Len(pfx) :
             /\ pfx[i].prefix = cidr
             /\ \A j \in 1..Len(pfx) : pfx[j].prefix = cidr => i <= j
    ELSE 0

\* device.interfaces: the interfaces of one device.
InterfacesOf(ifs, d) == { i \in ifs : i.device = d }

\* A slip: order_by("-name"), the last interface by name.
LastInterface(ifs, d) ==
    IF { i \in ifs : i.device = d } = {}
    THEN NoIface
    ELSE CHOOSE i \in { j \in ifs : j.device = d } :
             \A j \in { k \in ifs : k.device = d } : i.name >= j.name

\* A slip: the query is not restricted to the device.
FirstInterfaceOfAny(ifs, d) ==
    IF ifs = {}
    THEN NoIface
    ELSE CHOOSE i \in ifs : \A j \in ifs : i.name <= j.name

\* device.interfaces.order_by("name").first(): None when there is none.
FirstInterface(ifs, d) ==
    IF InterfacesOf(ifs, d) = {}
    THEN NoIface
    ELSE CHOOSE i \in InterfacesOf(ifs, d) :
             \A j \in InterfacesOf(ifs, d) : i.name <= j.name

\* A slip: the query is not restricted to the interface.
FirstAddressOfAny(addrs, iface) == IF Len(addrs) > 0 THEN 1 ELSE 0

\* IPAddress.objects.filter(interfaces=interface).first(): the primary key of
\* the first address bound to the interface, 0 for None.
FirstAddressOf(addrs, iface) ==
    IF \E i \in 1..Len(addrs) : iface \in addrs[i].interfaces
    THEN CHOOSE i \in 1..Len(addrs) :
             /\ iface \in addrs[i].interfaces
             /\ \A j \in 1..Len(addrs) : iface \in addrs[j].interfaces => i <= j
    ELSE 0

\* A cable whose validated_save() is rejected: an end is already cabled.
CableConflict(cbls, a, b) ==
    \E c \in cbls : {c.termination_a, c.termination_b} \cap {a, b} # {}

\* ------------------------------------------------------------------- Init
\* The elements of a set of numbers, in ascending order.
RECURSIVE Ascending(_)
Ascending(S) ==
    IF S = {} THEN << >>
    ELSE LET m == CHOOSE x \in S : \A y \in S : x <= y
         IN  << m >> \o Ascending(S \ {m})

\* An address of the pool that some other user of the store assigned.
OtherAddress(n) ==
    [address |-> WithLen(ParentBase + n, NewPrefix), status |-> "Reserved",
     interfaces |-> {}]

\* A prefix that some other user of the store created: offset 0 is the
\* parent network, offset k+1 the k-th /31.  The store holds none of them,
\* or the parent network, or the parent network and the lowest /31s.
OtherPrefix(n) ==
    [prefix |-> IF n = 0 THEN ParentCidr ELSE SubnetStr(n - 1),
     description |-> "other", status |-> "Reserved"]

InitLocal ==
    [device_name1 |-> NoStr, device_name2 |-> NoStr,
     iface1 |-> NoIface, iface2 |-> NoIface,
     cand |-> 0,
     candidate_subnet_str |-> NoStr,
     candidate_ip_a |-> NoStr, candidate_ip_b |-> NoStr,
     parent_prefix |-> 0, subnet |-> 0, ip1 |-> 0, ip2 |-> 0]

Init ==
    /\ statuses \in SUBSET {"Active", "Connected"}
    /\ devices = {}
    /\ interfaces = {}
    /\ cables = {}
    /\ \E n \in 0..(NumSub + 1) : prefixes = [i \in 1..n |-> OtherPrefix(i - 1)]
    /\ \E A \in SUBSET (0..(2 * NumSub - 1)) :
          addresses = [i \in 1..Cardinality(A) |-> OtherAddress(Ascending(A)[i])]
    /\ pc = [r \in Runs |-> "idle"]
    /\ err = [r \in Runs |-> NoError]
    /\ local = [r \in Runs |-> InitLocal]
    /\ log = [r \in Runs |-> << >>]
    /\ output = [r \in Runs |-> << >>]

\* A store in which nobody has used the pool yet.
FreshInit ==
    /\ Init
    /\ prefixes = << >>
    /\ addresses = << >>

\* ---------------------------------------------------------------- helpers
Error(t) == [type |-> t, device |-> NoStr]

\* A slip: a handler deletes the devices of the invocation before the
\* exception leaves run().
RaiseWithCleanup(r, e) ==
    /\ pc' = [pc EXCEPT ![r] = "aborted"]
    /\ err' = [err EXCEPT ![r] = e]
    /\ devices' = { d \in devices :
                       d.name \notin {local[r].device_name1, local[r].device_name2} }
    /\ interfaces' = { i \in interfaces :
                          i.device \notin {local[r].device_name1, local[r].device_name2} }
    /\ UNCHANGED << statuses, cables, prefixes, addresses, local, log, output >>

\* A slip: a handler around the body of run() starts it again from the top.
RaiseAndRestart(r, e) ==
    /\ pc' = [pc EXCEPT ![r] = "idle"]
    /\ err' = [err EXCEPT ![r] = e]
    /\ UNCHANGED << store, local, log, output >>

\* An exception leaves run(): nothing catches it and nothing is undone.
Raise(r, e) ==
    /\ pc' = [pc EXCEPT ![r] = "aborted"]
    /\ err' = [err EXCEPT ![r] = e]
    /\ UNCHANGED << store, local, log, output >>

Go(r, next) == pc' = [pc EXCEPT ![r] = next]

\* self.logger.info(msg, extra={"object": obj})
Info(r, m, obj) == log' = [log EXCEPT ![r] = Append(@, [msg |-> m, object |-> obj])]

\* A slip: Device.objects.get_or_create(name=...), which takes the stored
\* device of that name when there is one.
SaveDeviceGetOrCreate(r, n, ifs, next) ==
    IF \E d \in devices : d.name = n
    THEN /\ Info(r, "Created device", n)
         /\ Go(r, next)
         /\ UNCHANGED << store, err, local, output >>
    ELSE /\ devices' = devices \cup {[name |-> n, status |-> "Active"]}
         /\ interfaces' = interfaces \cup {[device |-> n, name |-> i] : i \in ifs}
         /\ Info(r, "Created device", n)
         /\ Go(r, next)
         /\ UNCHANGED << statuses, cables, prefixes, addresses, err, local, output >>

\* Device(name=..., status=active_status).validated_save(): the name must be
\* new; the saved device gets the interfaces ifs of its device type.
SaveDevice(r, n, ifs, next) ==
    IF \E d \in devices : d.name = n
    THEN Raise(r, Error("ValidationError"))
    ELSE /\ devices' = devices \cup {[name |-> n, status |-> "Active"]}
         /\ interfaces' = interfaces \cup {[device |-> n, name |-> i] : i \in ifs}
         /\ Info(r, "Created device", n)
         /\ Go(r, next)
         /\ UNCHANGED << statuses, cables, prefixes, addresses, err, local, output >>

\* A slip: create() in the place of get_or_create().
GetOrCreateAlways(pfx, cidr, desc, st) ==
    Append(pfx, [prefix |-> cidr, description |-> desc, status |-> st])

\* Prefix.objects.get_or_create(prefix=cidr, defaults={description, status}):
\* the stored prefixes afterwards.
GetOrCreate(pfx, cidr, desc, st) ==
    IF GetPrefix(pfx, cidr) # 0
    THEN pfx
    ELSE Append(pfx, [prefix |-> cidr, description |-> desc, status |-> st])

\* A slip: the store does not detect the duplicate.
AddressConflictNever(addrs, a) == \E i \in DOMAIN addrs : FALSE

\* IPAddress(address=a, status=active_status): full_clean() rejects an
\* address that is already stored.
AddressConflict(addrs, a) == \E i \in DOMAIN addrs : addrs[i].address = a

\* Prefix(prefix=cidr, ...): full_clean() rejects a prefix that is already
\* stored.
PrefixConflict(pfx, cidr) == GetPrefix(pfx, cidr) # 0

\* ---------------------------------------------------------------- actions
\* Lines 55-63: the "Active" status, then the two device names.  Invocations
\* are numbered in the order in which they start.
GetActiveStatus(r) ==
    /\ pc[r] = "idle"
    /\ \A q \in Runs : q < r => pc[q] # "idle"
    /\ IF "Active" \notin statuses
       THEN Raise(r, Error("DoesNotExist"))
       ELSE /\ \E s1 \in Suffixes, s2 \in Suffixes :
                 local' = [local EXCEPT ![r].device_name1 = DeviceName1(s1),
                                        ![r].device_name2 = DeviceName2(s2)]
            /\ Go(r, "switch1")
            /\ UNCHANGED << store, err, log, output >>

\* Lines 66-74.
CreateSwitch1(r) ==
    /\ pc[r] = "switch1"
    /\ \E ifs \in SUBSET IfNames :
          SaveDevice(r, local[r].device_name1, ifs, "switch2")

\* Lines 81-89.
CreateSwitch2(r) ==
    /\ pc[r] = "switch2"
    /\ \E ifs \in SUBSET IfNames :
          SaveDevice(r, local[r].device_name2, ifs, "iface1")

\* Lines 98-100.
ResolveIface1(r) ==
    /\ pc[r] = "iface1"
    /\ LET i == FirstInterface(interfaces, local[r].device_name1)
       IN  IF i = NoIface
           THEN Raise(r, [type |-> "ValueError", device |-> local[r].device_name1])
           ELSE /\ local' = [local EXCEPT ![r].iface1 = i]
                /\ Go(r, "iface2")
                /\ UNCHANGED << store, err, log, output >>

\* Lines 102-104.
ResolveIface2(r) ==
    /\ pc[r] = "iface2"
    /\ LET i == FirstInterface(interfaces, local[r].device_name2)
       IN  IF i = NoIface
           THEN Raise(r, [type |-> "ValueError", device |-> local[r].device_name2])
           ELSE /\ local' = [local EXCEPT ![r].iface2 = i]
                /\ Go(r, "cable_status")
                /\ UNCHANGED << store, err, log, output >>

\* A slip: filter(name="Connected").first(), which gives None and no error
\* when the name is absent.
GetCableStatusUnchecked(r) ==
    /\ pc[r] = "cable_status"
    /\ Go(r, "cable")
    /\ UNCHANGED << store, err, local, log, output >>

\* Line 111.
GetCableStatus(r) ==
    /\ pc[r] = "cable_status"
    /\ IF "Connected" \notin statuses
       THEN Raise(r, Error("DoesNotExist"))
       ELSE /\ Go(r, "cable")
            /\ UNCHANGED << store, err, local, log, output >>

\* Lines 116-122.
CreateCable(r) ==
    /\ pc[r] = "cable"
    /\ IF CableConflict(cables, local[r].iface1, local[r].iface2)
       THEN Raise(r, Error("ValidationError"))
       ELSE /\ cables' = cables \cup
                  {[termination_a |-> local[r].iface1,
                    termination_b |-> local[r].iface2,
                    status |-> "Connected"]}
            /\ Info(r, "Connected interfaces with cable",
                    << local[r].iface1, local[r].iface2 >>)
            /\ Go(r, "parent")
            /\ UNCHANGED << statuses, devices, interfaces, prefixes, addresses,
                            err, local, output >>

\* Lines 127-138.
EnsureParentPrefix(r) ==
    /\ pc[r] = "parent"
    /\ prefixes' = GetOrCreate(prefixes, ParentCidr,
                       "Parent prefix for switch interconnections", "Active")
    /\ local' = [local EXCEPT ![r].parent_prefix = GetPrefix(prefixes', ParentCidr)]
    /\ Go(r, "search_a")
    /\ UNCHANGED << statuses, devices, interfaces, cables, addresses,
                    err, log, output >>

\* A slip: the candidate is assigned before the test of line 146, and the
\* loop's end leaves the last one in place.
NextCandidateKeepLast(r) ==
    IF local[r].cand + 1 < NumSub
    THEN /\ local' = [local EXCEPT ![r].cand = @ + 1]
         /\ Go(r, "search_a")
         /\ UNCHANGED << store, err, log, output >>
    ELSE /\ local' = [local EXCEPT
                ![r].candidate_subnet_str = SubnetStr(local[r].cand),
                ![r].candidate_ip_a = IpA(local[r].cand),
                ![r].candidate_ip_b = IpB(local[r].cand)]
         /\ Go(r, "subnet_get")
         /\ UNCHANGED << store, err, log, output >>

\* A slip: the iteration over the subnets starts again when it reaches the
\* end of the pool.
NextCandidateRestart(r) ==
    /\ local' = [local EXCEPT ![r].cand = IF @ + 1 < NumSub THEN @ + 1 ELSE 0]
    /\ Go(r, "search_a")
    /\ UNCHANGED << store, err, log, output >>

\* Lines 140, 159-160: the loop takes the next /31, or ends with no candidate.
NextCandidate(r) ==
    IF local[r].cand + 1 < NumSub
    THEN /\ local' = [local EXCEPT ![r].cand = @ + 1]
         /\ Go(r, "search_a")
         /\ UNCHANGED << store, err, log, output >>
    ELSE Raise(r, Error("Exception"))

\* A slip: only ip_b is tested.
CheckIpASkipped(r) ==
    /\ pc[r] = "search_a"
    /\ Go(r, "search_b")
    /\ UNCHANGED << store, err, local, log, output >>

\* Line 146, left operand of "and".
CheckIpA(r) ==
    /\ pc[r] = "search_a"
    /\ IF AddressExists(addresses, IpA(local[r].cand))
       THEN NextCandidate(r)
       ELSE /\ Go(r, "search_b")
            /\ UNCHANGED << store, err, local, log, output >>

\* A change that closes the gap: the first address of the chosen subnet is
\* stored in the step that finds the subnet free.
CheckIpBReserve(r) ==
    /\ pc[r] = "search_b"
    /\ IF AddressExists(addresses, IpB(local[r].cand))
       THEN NextCandidate(r)
       ELSE /\ local' = [local EXCEPT
                   ![r].candidate_subnet_str = SubnetStr(local[r].cand),
                   ![r].candidate_ip_a = IpA(local[r].cand),
                   ![r].candidate_ip_b = IpB(local[r].cand)]
            /\ addresses' = Append(addresses,
                   [address |-> IpA(local[r].cand), status |-> "Active",
                    interfaces |-> {}])
            /\ Go(r, "subnet_get")
            /\ UNCHANGED << statuses, devices, interfaces, cables, prefixes,
                            err, log, output >>

\* Lines 146-157, right operand of "and".
CheckIpB(r) ==
    /\ pc[r] = "search_b"
    /\ IF AddressExists(addresses, IpB(local[r].cand))
       THEN NextCandidate(r)
       ELSE /\ local' = [local EXCEPT
                   ![r].candidate_subnet_str = SubnetStr(local[r].cand),
                   ![r].candidate_ip_a = IpA(local[r].cand),
                   ![r].candidate_ip_b = IpB(local[r].cand)]
            /\ Go(r, "subnet_get")
            /\ UNCHANGED << store, err, log, output >>

\* A slip: the Prefix is constructed without the lookup of line 164.
GetSubnetCreate(r) ==
    /\ pc[r] = "subnet_get"
    /\ Go(r, "subnet_create")
    /\ UNCHANGED << store, err, local, log, output >>

\* Lines 163-167.
GetSubnet(r) ==
    /\ pc[r] = "subnet_get"
    /\ LET got == GetPrefix(prefixes, local[r].candidate_subnet_str)
       IN  IF got # 0
           THEN /\ local' = [local EXCEPT ![r].subnet = got]
                /\ Go(r, "ip1")
           ELSE /\ Go(r, "subnet_create")
                /\ UNCHANGED local
    /\ UNCHANGED << store, err, log, output >>

\* Lines 168-175.
CreateSubnet(r) ==
    /\ pc[r] = "subnet_create"
    /\ IF PrefixConflict(prefixes, local[r].candidate_subnet_str)
       THEN Raise(r, Error("ValidationError"))
       ELSE /\ prefixes' = Append(prefixes,
                  [prefix |-> local[r].candidate_subnet_str,
                   description |-> "First available /31 subnet for switch interconnection",
                   status |-> "Active"])
            /\ local' = [local EXCEPT ![r].subnet = Len(prefixes) + 1]
            /\ Info(r, "Created /31 prefix", local[r].candidate_subnet_str)
            /\ Go(r, "ip1")
            /\ UNCHANGED << statuses, devices, interfaces, cables, addresses,
                            err, output >>

\* ip.save(): the stored addresses with a new record for a, bound to nothing.
SaveAddress(addrs, a) ==
    Append(addrs, [address |-> a, status |-> "Active", interfaces |-> {}])

\* A slip: the interface is never added.
AddInterfaceNone(addrs, pk, iface) == [addrs EXCEPT ![pk].interfaces = @]

\* ip.interfaces.add(iface)
AddInterface(addrs, pk, iface) ==
    [addrs EXCEPT ![pk].interfaces = @ \cup {iface}]

\* Lines 180-182.
CreateIp1(r) ==
    /\ pc[r] = "ip1"
    /\ IF AddressConflict(addresses, local[r].candidate_ip_a)
       THEN Raise(r, Error("ValidationError"))
       ELSE /\ addresses' = SaveAddress(addresses, local[r].candidate_ip_a)
            /\ local' = [local EXCEPT ![r].ip1 = Len(addresses) + 1]
            /\ Go(r, "ip1_add")
            /\ UNCHANGED << statuses, devices, interfaces, cables, prefixes,
                            err, log, output >>

\* Lines 184-185.
AddIp1(r) ==
    /\ pc[r] = "ip1_add"
    /\ addresses' = AddInterface(addresses, local[r].ip1, local[r].iface1)
    /\ Info(r, "Assigned IP to switch1 interface", local[r].candidate_ip_a)
    /\ Go(r, "ip2")
    /\ UNCHANGED << statuses, devices, interfaces, cables, prefixes,
                    err, local, output >>

\* Lines 189-191.
CreateIp2(r) ==
    /\ pc[r] = "ip2"
    /\ IF AddressConflict(addresses, local[r].candidate_ip_b)
       THEN Raise(r, Error("ValidationError"))
       ELSE /\ addresses' = SaveAddress(addresses, local[r].candidate_ip_b)
            /\ local' = [local EXCEPT ![r].ip2 = Len(addresses) + 1]
            /\ Go(r, "ip2_add")
            /\ UNCHANGED << statuses, devices, interfaces, cables, prefixes,
                            err, log, output >>

\* A slip: ip2.interfaces.add(iface1), the line above copied unchanged.
AddIp2ToIface1(r) ==
    /\ pc[r] = "ip2_add"
    /\ addresses' = AddInterface(addresses, local[r].ip2, local[r].iface1)
    /\ Info(r, "Assigned IP to switch2 interface", local[r].candidate_ip_b)
    /\ Go(r, "summary")
    /\ UNCHANGED << statuses, devices, interfaces, cables, prefixes,
                    err, local, output >>

\* Lines 192-193.
AddIp2(r) ==
    /\ pc[r] = "ip2_add"
    /\ addresses' = AddInterface(addresses, local[r].ip2, local[r].iface2)
    /\ Info(r, "Assigned IP to switch2 interface", local[r].candidate_ip_b)
    /\ Go(r, "summary")
    /\ UNCHANGED << statuses, devices, interfaces, cables, prefixes,
                    err, local, output >>

\* The text "None" in the place of an address.
NoneMarker == << "None" >>

\* output_lines = ["device,interface,ip_address"]
Header == << "device", "interface", "ip_address" >>

\* Lines 200-203: f"{switch.name},{interface.name},{ip_str}"
SummaryLine(ifs, addrs, switch) ==
    LET interface == FirstInterface(ifs, switch)
        ip_obj == FirstAddressOf(addrs, interface)
        ip_str == IF ip_obj # 0 THEN addrs[ip_obj].address ELSE NoneMarker
    IN  << switch, interface.name, ip_str >>

\* Lines 198-216.
Summary(r) ==
    /\ pc[r] = "summary"
    /\ output' = [output EXCEPT ![r] =
           << Header,
              SummaryLine(interfaces, addresses, local[r].device_name1),
              SummaryLine(interfaces, addresses, local[r].device_name2) >>]
    /\ Go(r, "done")
    /\ UNCHANGED << store, err, local, log >>

\* The positions at which run() is inside a call of the ORM.
InCall == {"switch1", "switch2", "iface1", "iface2", "cable_status", "cable",
           "parent", "search_a", "search_b", "subnet_get", "subnet_create",
           "ip1", "ip1_add", "ip2", "ip2_add", "summary"}

\* Any ORM call can raise (the database rejects or drops the request); the
\* exception leaves run() like every other.
GatewayError(r) ==
    /\ pc[r] \in InCall
    /\ Raise(r, Error("DatabaseError"))

\* The steps of an invocation that has started.
Continue(r) ==
    \/ CreateSwitch1(r)
    \/ CreateSwitch2(r)
    \/ ResolveIface1(r)
    \/ ResolveIface2(r)
    \/ GetCableStatus(r)
    \/ CreateCable(r)
    \/ EnsureParentPrefix(r)
    \/ CheckIpA(r)
    \/ CheckIpB(r)
    \/ GetSubnet(r)
    \/ CreateSubnet(r)
    \/ CreateIp1(r)
    \/ AddIp1(r)
    \/ CreateIp2(r)
    \/ AddIp2(r)
    \/ Summary(r)
    \/ GatewayError(r)

Step(r) == GetActiveStatus(r) \/ Continue(r)

\* Invocations of the job that run concurrently against the one store.
Next == \E r \in Runs : Step(r)

Spec == FreshInit /\ [][Next]_vars

\* No other invocation is inside run().
Alone(r) == \A q \in Runs \ {r} : pc[q] \in {"idle", "done", "aborted"}

\* An invocation starts only when no other is inside run().
StartAlone(r) == Alone(r) /\ GetActiveStatus(r)

SeqNext == \E r \in Runs : StartAlone(r) \/ Continue(r)

\* Invocations of the job one after the other.
SeqSpec == FreshInit /\ [][SeqNext]_vars

\* One invocation of the job, in any store.
OneNext == Step(1)

OneSpec == Init /\ [][OneNext]_vars

\* One invocation each of whose ORM calls returns (with a result or with an
\* exception): run() is sequential code, so it takes its next step.
OneFairSpec == OneSpec /\ WF_vars(OneNext)

\* ------------------------------------------------------------------ claims
\* The address values that are stored.
Assigned == { addresses[i].address : i \in 1..Len(addresses) }

\* The two addresses of the k-th 2-address sub-block of the pool, written
\* from the pool's base address.
LowerOf(k) == WithLen(ParentBase + 2 * k, NewPrefix)
UpperOf(k) == WithLen(ParentBase + 2 * k + 1, NewPrefix)

\* Neither address of the k-th sub-block is assigned.
FreeSub(k) == LowerOf(k) \notin Assigned /\ UpperOf(k) \notin Assigned

\* The positions at which the search has ended with a sub-block and the
\* invocation has not yet written an address.
Chosen == {"subnet_get", "subnet_create", "ip1"}

\* The positions after a successful search.
AfterSearch == Chosen \cup {"ip1_add", "ip2", "ip2_add", "summary", "done"}

\* C1: in any store, the search of an invocation that runs alone ends with
\* the numerically smallest sub-block of the pool neither of whose addresses
\* is assigned, with exactly its two addresses, having examined no
\* candidate after it; it ends with the exhaustion error only when every
\* sub-block has an assigned address.
C1_FirstFreePair ==
    /\ pc[1] \in Chosen =>
          \E k \in SubIndex :
             /\ FreeSub(k)
             /\ \A j \in SubIndex : j < k => ~FreeSub(j)
             /\ local[1].candidate_subnet_str = LowerOf(k)
             /\ local[1].candidate_ip_a = LowerOf(k)
             /\ local[1].candidate_ip_b = UpperOf(k)
             /\ local[1].cand = k
    /\ err[1].type = "Exception" => \A k \in SubIndex : ~FreeSub(k)

\* C1 witness: the search skipped a sub-block whose upper address alone is
\* assigned and chose the next one.
C1_Witness ==
    /\ pc[1] = "subnet_get"
    /\ local[1].cand = 1
    /\ LowerOf(0) \notin Assigned
    /\ UpperOf(0) \in Assigned

\* C2: from a store with no assigned address, the k-th of successive
\* successful sequential invocations is allocated the k-th sub-block of the
\* pool: the first 10.0.0.0/31 with 10.0.0.0/31 and 10.0.0.1/31, the second
\* 10.0.0.2/31.
C2_ConsecutiveBlocks ==
    \A k \in Runs :
       (\A j \in 1..(k - 1) : pc[j] = "done") =>
          /\ pc[k] \in AfterSearch =>
                /\ local[k].candidate_subnet_str = LowerOf(k - 1)
                /\ local[k].candidate_ip_a = LowerOf(k - 1)
                /\ local[k].candidate_ip_b = UpperOf(k - 1)
                /\ k = 1 => /\ local[k].candidate_subnet_str = << 10, 0, 0, 0, 31 >>
                            /\ local[k].candidate_ip_a = << 10, 0, 0, 0, 31 >>
                            /\ local[k].candidate_ip_b = << 10, 0, 0, 1, 31 >>
                /\ k = 2 => local[k].candidate_subnet_str = << 10, 0, 0, 2, 31 >>
          /\ pc[k] = "done" =>
                /\ Len(addresses) >= 2 * k
                /\ addresses[2 * k - 1].address = LowerOf(k - 1)
                /\ addresses[2 * k].address = UpperOf(k - 1)

\* C2 witness: two invocations have succeeded one after the other.
C2_Witness == pc[1] = "done" /\ pc[2] = "done"

\* The positions after the interface of device 1 was found.
AfterIface1 == {"iface2", "cable_status", "cable", "parent", "search_a",
                "search_b"} \cup AfterSearch

\* The positions after the interface of device 2 was found.
AfterIface2 == AfterIface1 \ {"iface2"}

\* The positions after the cable was created.
AfterCable == AfterIface2 \ {"cable_status", "cable"}

\* The interfaces of the two devices of an invocation.
OwnInterfaces(r) ==
    { i \in interfaces : i.device \in {local[r].device_name1, local[r].device_name2} }

\* The records that touch an interface of a device.
CablesOn(d) ==
    { c \in cables : c.termination_a.device = d \/ c.termination_b.device = d }
AddressesOn(d) ==
    { i \in 1..Len(addresses) : \E f \in addresses[i].interfaces : f.device = d }

\* C3: whatever the interleaving of concurrent invocations, two that have
\* completed hold different sub-blocks and disjoint addresses, and of two
\* that chose the same sub-block at most one has created an address: the
\* other aborts at the store's uniqueness check.
C3_DisjointPairs ==
    \A r \in Runs, q \in Runs :
       r # q =>
          /\ (pc[r] = "done" /\ pc[q] = "done") =>
                /\ local[r].candidate_subnet_str # local[q].candidate_subnet_str
                /\ {local[r].candidate_ip_a, local[r].candidate_ip_b} \cap
                   {local[q].candidate_ip_a, local[q].candidate_ip_b} = {}
                /\ \A i \in 1..Len(addresses) :
                      ~ /\ addresses[i].interfaces \cap OwnInterfaces(r) # {}
                        /\ addresses[i].interfaces \cap OwnInterfaces(q) # {}
          /\ (pc[r] \in AfterSearch /\ pc[q] \in AfterSearch
              /\ local[r].candidate_subnet_str = local[q].candidate_subnet_str) =>
                ~ (local[r].ip1 # 0 /\ local[q].ip1 # 0)

\* C3 witness: two invocations chose the same sub-block; one completed and
\* the other was rejected by the store.
C3_Witness ==
    /\ pc[1] = "done"
    /\ pc[2] = "aborted"
    /\ err[2].type = "ValidationError"
    /\ local[2].candidate_subnet_str = local[1].candidate_subnet_str
    /\ local[2].candidate_subnet_str # NoStr

\* C4: with every sub-block of the pool holding an assigned address the
\* search cannot end with a sub-block; the invocation ends with the
\* exhaustion error, having created no address and no leaf block, and its
\* two devices and its cable are in the store.
C4_Exhausted ==
    /\ (\A k \in SubIndex : ~FreeSub(k)) => pc[1] \notin Chosen
    /\ err[1].type = "Exception" =>
          /\ \A k \in SubIndex : ~FreeSub(k)
          /\ [name |-> local[1].device_name1, status |-> "Active"] \in devices
          /\ [name |-> local[1].device_name2, status |-> "Active"] \in devices
          /\ [termination_a |-> local[1].iface1, termination_b |-> local[1].iface2,
              status |-> "Connected"] \in cables
          /\ Len(log[1]) = 3
          /\ \A i \in 1..Len(addresses) : addresses[i].status = "Reserved"
          /\ \A i \in 1..Len(prefixes) :
                prefixes[i].prefix[5] = NewPrefix => prefixes[i].status = "Reserved"

\* C4 witness: an invocation ended with the exhaustion error.
C4_Witness == err[1].type = "Exception" /\ pc[1] = "aborted"

\* C5: an invocation gets past the interface step of a device only if the
\* device has an interface; the missing-interface error names a device of
\* the invocation that has none (device 2 only if device 1 has one), and no
\* cable and no address is on an interface of either device.
C5_MissingInterface ==
    \A r \in Runs :
       /\ pc[r] \in AfterIface1 =>
             \E i \in interfaces : i.device = local[r].device_name1
       /\ pc[r] \in AfterIface2 =>
             \E i \in interfaces : i.device = local[r].device_name2
       /\ err[r].type = "ValueError" =>
             /\ err[r].device \in {local[r].device_name1, local[r].device_name2}
             /\ ~ \E i \in interfaces : i.device = err[r].device
             /\ err[r].device = local[r].device_name2 =>
                   \E i \in interfaces : i.device = local[r].device_name1
             /\ CablesOn(local[r].device_name1) = {}
             /\ CablesOn(local[r].device_name2) = {}
             /\ AddressesOn(local[r].device_name1) = {}
             /\ AddressesOn(local[r].device_name2) = {}

\* C5 witness: device 2 has no interface while device 1 has one, and the
\* invocation ended with the error naming device 2.
C5_Witness ==
    /\ err[1].type = "ValueError"
    /\ err[1].device = local[1].device_name2
    /\ \E i \in interfaces : i.device = local[1].device_name1

\* What an invocation that has ended with an exception does, and what the
\* step that ends it does to the store.
C6_Fatal(r) ==
    /\ pc[r] = "aborted" =>
          /\ pc'[r] = "aborted"
          /\ err'[r] = err[r]
          /\ local'[r] = local[r]
          /\ log'[r] = log[r]
          /\ output'[r] = output[r]
    /\ (pc[r] # "aborted" /\ pc'[r] = "aborted") =>
          /\ store' = store
          /\ log'[r] = log[r]

\* Every stored record stays as it is, but for new bindings of an address.
C6_Kept ==
    /\ statuses' = statuses
    /\ devices \subseteq devices'
    /\ interfaces \subseteq interfaces'
    /\ cables \subseteq cables'
    /\ Len(prefixes') >= Len(prefixes)
    /\ \A i \in 1..Len(prefixes) : prefixes'[i] = prefixes[i]
    /\ Len(addresses') >= Len(addresses)
    /\ \A i \in 1..Len(addresses) :
          /\ addresses'[i].address = addresses[i].address
          /\ addresses'[i].status = addresses[i].status
          /\ addresses[i].interfaces \subseteq addresses'[i].interfaces

\* C6: an invocation that has aborted takes no further step and keeps its
\* exception; the step that aborts it writes nothing and deletes nothing;
\* and no step of any invocation deletes or changes a stored record.
C6_FatalNoRollback == [][(\A r \in Runs : C6_Fatal(r)) /\ C6_Kept]_vars

\* C6 witness: an invocation aborted after it created its devices and its
\* cable, these are in the store, and a later invocation has completed.
C6_Witness ==
    /\ pc[1] = "aborted"
    /\ Len(log[1]) >= 3
    /\ [name |-> local[1].device_name1, status |-> "Active"] \in devices
    /\ CablesOn(local[1].device_name1) # {}
    /\ pc[2] = "done"

\* Every CIDR is stored once, and the block an invocation got from an
\* ensure step is the stored block of that CIDR.
C7_OneBlock ==
    /\ \A i \in 1..Len(prefixes), j \in 1..Len(prefixes) :
          prefixes[i].prefix = prefixes[j].prefix => i = j
    /\ \A r \in Runs :
          /\ local[r].parent_prefix # 0 =>
                /\ local[r].parent_prefix \in 1..Len(prefixes)
                /\ prefixes[local[r].parent_prefix].prefix = << 10, 0, 0, 0, 8 >>
          /\ local[r].subnet # 0 =>
                /\ local[r].subnet \in 1..Len(prefixes)
                /\ prefixes[local[r].subnet].prefix = local[r].candidate_subnet_str

\* An ensure step on a CIDR that is stored leaves the stored blocks as they
\* are.
C7_Second(r) ==
    /\ (pc[r] = "parent" /\ pc'[r] = "search_a"
        /\ \E i \in 1..Len(prefixes) : prefixes[i].prefix = << 10, 0, 0, 0, 8 >>)
          => prefixes' = prefixes
    /\ (pc[r] = "subnet_get" /\ pc'[r] # "aborted" /\ pc'[r] # "subnet_get"
        /\ \E i \in 1..Len(prefixes) : prefixes[i].prefix = local[r].candidate_subnet_str)
          => (pc'[r] = "ip1" /\ prefixes' = prefixes)

\* C7: ensuring the parent block or a leaf block whose CIDR is stored
\* returns the stored block and changes no stored block; after every step
\* each CIDR is stored exactly once, so two ensure steps on one CIDR return
\* the same block.
C7_EnsureIdempotent ==
    [][C7_OneBlock' /\ (\A r \in Runs : C7_Second(r))
       /\ (\A i \in 1..Len(prefixes) : prefixes'[i] = prefixes[i])]_vars

\* C7 witness: a second invocation was given the parent block and the leaf
\* block that the first one created.
C7_Witness ==
    /\ pc[2] \in AfterSearch \ {"subnet_get", "subnet_create"}
    /\ local[1].parent_prefix # 0
    /\ local[2].parent_prefix = local[1].parent_prefix
    /\ local[1].subnet # 0
    /\ local[2].subnet = local[1].subnet

\* The interface f is the first by name of device d.
IsFirstOf(f, d) ==
    /\ f \in interfaces
    /\ f.device = d
    /\ \A i \in interfaces : i.device = d => f.name <= i.name

\* A line of the summary: the device, its first interface, and the address
\* of the stored record pk, which is bound to that interface.
C8_Line(l, d, pk) ==
    /\ Len(l) = 3
    /\ l[1] = d
    /\ IsFirstOf([device |-> d, name |-> l[2]], d)
    /\ l[3] # << "None" >>
    /\ pk \in 1..Len(addresses)
    /\ l[3] = addresses[pk].address
    /\ [device |-> d, name |-> l[2]] \in addresses[pk].interfaces

\* C8: the summary of a completed invocation is the header line followed by
\* the line of device 1 and the line of device 2, each with the device's
\* name, its first interface by name and the address this invocation bound
\* to it; no line holds "None".
C8_Summary ==
    \A r \in Runs :
       pc[r] = "done" =>
          /\ Len(output[r]) = 3
          /\ output[r][1] = << "device", "interface", "ip_address" >>
          /\ C8_Line(output[r][2], local[r].device_name1, local[r].ip1)
          /\ output[r][2][3] = local[r].candidate_ip_a
          /\ C8_Line(output[r][3], local[r].device_name2, local[r].ip2)
          /\ output[r][3][3] = local[r].candidate_ip_b

\* C8 witness: two invocations have returned their summaries, the second
\* for devices with several interfaces.
C8_Witness ==
    /\ pc[1] = "done"
    /\ pc[2] = "done"
    /\ Cardinality({ i \in interfaces : i.device = local[2].device_name2 }) > 1

\* The cables with an end on a device of an invocation.
OwnCables(r) ==
    CablesOn(local[r].device_name1) \cup CablesOn(local[r].device_name2)

\* C9: the two devices that an invocation created (its log holds their two
\* entries) have at most one cable, exactly one once the cable step is
\* done; its termination A is the first interface by name of device 1 and
\* its termination B the first interface by name of device 2.
C9_LinkEndpoints ==
    \A r \in Runs :
       /\ pc[r] \in AfterCable => Cardinality(OwnCables(r)) = 1
       /\ Len(log[r]) >= 2 =>
             /\ Cardinality(OwnCables(r)) <= 1
             /\ \A c \in OwnCables(r) :
                   /\ IsFirstOf(c.termination_a, local[r].device_name1)
                   /\ IsFirstOf(c.termination_b, local[r].device_name2)

\* C9 witness: the cable was created between devices that have several
\* interfaces each.
C9_Witness ==
    /\ pc[1] \in AfterCable
    /\ Cardinality({ i \in interfaces : i.device = local[1].device_name1 }) > 1
    /\ Cardinality({ i \in interfaces : i.device = local[1].device_name2 }) > 1

\* The stored records of an address value.
RecordsOf(a) == { i \in 1..Len(addresses) : addresses[i].address = a }

\* C10: after a completed invocation the lower address of its sub-block is
\* stored once and bound to the first interface of device 1 alone, the
\* upper address is stored once and bound to the first interface of device
\* 2 alone; and whenever the record of the device-2 address exists, the
\* device-1 address was stored before it and is bound.
C10_Binding ==
    \A r \in Runs :
       /\ pc[r] = "done" =>
             /\ \E k \in SubIndex :
                   /\ local[r].candidate_ip_a = LowerOf(k)
                   /\ local[r].candidate_ip_b = UpperOf(k)
             /\ Cardinality(RecordsOf(local[r].candidate_ip_a)) = 1
             /\ Cardinality(RecordsOf(local[r].candidate_ip_b)) = 1
             /\ \A i \in RecordsOf(local[r].candidate_ip_a) :
                   /\ Cardinality(addresses[i].interfaces) = 1
                   /\ \A f \in addresses[i].interfaces :
                         IsFirstOf(f, local[r].device_name1)
             /\ \A i \in RecordsOf(local[r].candidate_ip_b) :
                   /\ Cardinality(addresses[i].interfaces) = 1
                   /\ \A f \in addresses[i].interfaces :
                         IsFirstOf(f, local[r].device_name2)
       /\ local[r].ip2 # 0 =>
             /\ local[r].ip1 # 0
             /\ local[r].ip1 < local[r].ip2
             /\ addresses[local[r].ip1].address = local[r].candidate_ip_a
             /\ addresses[local[r].ip2].address = local[r].candidate_ip_b
             /\ \E f \in addresses[local[r].ip1].interfaces :
                   f.device = local[r].device_name1

\* C10 witness: an invocation completed with the second sub-block of the
\* pool while another holds the first.
C10_Witness ==
    /\ pc[2] = "done"
    /\ local[2].candidate_ip_a = LowerOf(1)
    /\ local[1].candidate_ip_a = LowerOf(0)
    /\ local[1].ip2 # 0

\* The devices stored under the two names of an invocation.
OwnDevices(r) ==
    { d \in devices : d.name \in {local[r].device_name1, local[r].device_name2} }

\* C11: the two names an invocation generates differ, whatever the two
\* random suffixes are (equal ones too), so the two devices it creates are
\* two records.
C11_DistinctNames ==
    \A r \in Runs :
       /\ pc[r] \notin {"idle"} /\ local[r].device_name1 # NoStr =>
             /\ local[r].device_name2 # NoStr
             /\ local[r].device_name1 # local[r].device_name2
       /\ Len(log[r]) >= 2 => Cardinality(OwnDevices(r)) = 2

\* C11 witness: both devices were created under names with the same suffix.
C11_Witness ==
    /\ Len(log[1]) >= 2
    /\ local[1].device_name1[2] = local[1].device_name2[2]

\* The store holds nothing that an invocation of the job wrote.
NothingWritten ==
    /\ devices = {}
    /\ interfaces = {}
    /\ cables = {}
    /\ \A i \in 1..Len(prefixes) : prefixes[i].description = "other"
    /\ \A i \in 1..Len(addresses) : addresses[i].status = "Reserved"

\* C12 as stated: a status name that is absent ends the invocation before
\* it has created a device or any other record.
C12_BothStatusesFirst ==
    err[1].type = "DoesNotExist" => (NothingWritten /\ Len(log[1]) = 0)

\* C12, amended: the "Active" status is resolved before any record is
\* created, so its absence ends the invocation with nothing written; the
\* "Connected" status is resolved after the two devices are created and
\* their first interfaces found, right before the cable, so its absence
\* (with "Active" present) ends the invocation with its two devices stored
\* and no cable, prefix or address written.
C12_StatusOrder ==
    /\ "Active" \notin statuses =>
          /\ pc[1] \in {"idle", "aborted"}
          /\ NothingWritten
          /\ Len(log[1]) = 0
          /\ pc[1] = "aborted" => err[1].type = "DoesNotExist"
    /\ "Connected" \notin statuses =>
          /\ pc[1] \notin ({"cable"} \cup AfterCable)
          /\ cables = {}
    /\ (err[1].type = "DoesNotExist" /\ "Active" \in statuses) =>
          /\ "Connected" \notin statuses
          /\ Len(log[1]) = 2
          /\ Cardinality(OwnDevices(1)) = 2
          /\ devices = OwnDevices(1)
          /\ local[1].iface1 \in interfaces
          /\ local[1].iface2 \in interfaces
          /\ cables = {}
          /\ \A i \in 1..Len(prefixes) : prefixes[i].description = "other"
          /\ \A i \in 1..Len(addresses) : addresses[i].status = "Reserved"

\* C12 witness: "Connected" is absent and the invocation ended at its
\* lookup with both devices stored.
C12_Witness ==
    /\ err[1].type = "DoesNotExist"
    /\ "Active" \in statuses
    /\ Cardinality(devices) = 2

\* The position that follows each position of the pipeline when its step
\* succeeds: one, but for the search (which goes on to the next candidate)
\* and the leaf block (created only if absent).
Following(p) ==
    CASE p = "idle" -> {"switch1"}
      [] p = "switch1" -> {"switch2"}
      [] p = "switch2" -> {"iface1"}
      [] p = "iface1" -> {"iface2"}
      [] p = "iface2" -> {"cable_status"}
      [] p = "cable_status" -> {"cable"}
      [] p = "cable" -> {"parent"}
      [] p = "parent" -> {"search_a"}
      [] p = "search_a" -> {"search_a", "search_b"}
      [] p = "search_b" -> {"search_a", "subnet_get"}
      [] p = "subnet_get" -> {"subnet_create", "ip1"}
      [] p = "subnet_create" -> {"ip1"}
      [] p = "ip1" -> {"ip1_add"}
      [] p = "ip1_add" -> {"ip2"}
      [] p = "ip2" -> {"ip2_add"}
      [] p = "ip2_add" -> {"summary"}
      [] p = "summary" -> {"done"}
      [] OTHER -> {}

\* The log of an invocation whose every step succeeded, with and without
\* the creation of the leaf block.
FullLog ==
    << "Created device", "Created device", "Connected interfaces with cable",
       "Created /31 prefix", "Assigned IP to switch1 interface",
       "Assigned IP to switch2 interface" >>
FullLogLeafKept ==
    << "Created device", "Created device", "Connected interfaces with cable",
       "Assigned IP to switch1 interface", "Assigned IP to switch2 interface" >>

\* One step, seen from invocation r: it stays where it is and keeps its
\* locals, or moves to the next position of the pipeline, or aborts; the
\* search moves back only to take the next candidate; nothing leaves "done"
\* or "aborted".
C13_Move(r) ==
    /\ pc'[r] = pc[r] =>
          /\ log'[r] = log[r]
          /\ \/ local'[r] = local[r]
             \/ /\ pc[r] = "search_a"
                /\ local'[r] = [local[r] EXCEPT !.cand = @ + 1]
    /\ pc'[r] # pc[r] =>
          /\ pc[r] \notin {"done", "aborted"}
          /\ pc'[r] \in Following(pc[r]) \cup {"aborted"}
          /\ pc'[r] = "search_a" /\ pc[r] = "search_b" =>
                local'[r].cand = local[r].cand + 1
          /\ pc'[r] = "search_b" => local'[r].cand = local[r].cand
    /\ pc'[r] # "aborted" => err'[r] = NoError
    /\ local'[r].cand \in SubIndex

\* Each kind of record is written only by the step of its position.
C13_Writes ==
    /\ devices' # devices =>
          \E r \in Runs : \/ pc[r] = "switch1" /\ pc'[r] = "switch2"
                          \/ pc[r] = "switch2" /\ pc'[r] = "iface1"
    /\ interfaces' # interfaces =>
          \E r \in Runs : \/ pc[r] = "switch1" /\ pc'[r] = "switch2"
                          \/ pc[r] = "switch2" /\ pc'[r] = "iface1"
    /\ cables' # cables => \E r \in Runs : pc[r] = "cable" /\ pc'[r] = "parent"
    /\ prefixes' # prefixes =>
          \E r \in Runs : \/ pc[r] = "parent" /\ pc'[r] = "search_a"
                          \/ pc[r] = "subnet_create" /\ pc'[r] = "ip1"
    /\ addresses' # addresses =>
          \E r \in Runs : \/ pc[r] = "ip1" /\ pc'[r] = "ip1_add"
                          \/ pc[r] = "ip1_add" /\ pc'[r] = "ip2"
                          \/ pc[r] = "ip2" /\ pc'[r] = "ip2_add"
                          \/ pc[r] = "ip2_add" /\ pc'[r] = "summary"
    /\ statuses' = statuses

\* What an invocation has written so far is an initial part of the fixed
\* order: devices 1 and 2, cable, parent block, leaf block, address A and
\* its binding, address B and its binding.
C13_Order(r) ==
    /\ \E n \in 0..6 :
          \/ [i \in 1..Len(log[r]) |-> log[r][i].msg] = SubSeq(FullLog, 1, n)
          \/ [i \in 1..Len(log[r]) |-> log[r][i].msg] = SubSeq(FullLogLeafKept, 1, n)
    /\ local[r].parent_prefix # 0 => Len(log[r]) >= 3
    /\ local[r].subnet # 0 => local[r].parent_prefix # 0
    /\ local[r].ip1 # 0 => local[r].subnet # 0
    /\ local[r].ip2 # 0 =>
          /\ local[r].ip1 # 0
          /\ local[r].iface1 \in addresses[local[r].ip1].interfaces
    /\ pc[r] = "done" =>
          /\ local[r].ip2 # 0
          /\ local[r].iface2 \in addresses[local[r].ip2].interfaces
          /\ Len(output[r]) = 3
    /\ pc[r] # "done" => output[r] = << >>

\* C13: an invocation is a linear pipeline: every step moves it to the next
\* position or aborts it, no position is entered twice (the search only
\* advances its candidate), "done" and "aborted" are final, each kind of
\* record is written only at its own position, and the records written are
\* always an initial part of the order device 1, device 2, cable, parent
\* block, leaf block, address A with its binding, address B with its
\* binding.
C13_Pipeline ==
    [][(\A r \in Runs : C13_Move(r) /\ C13_Order(r)') /\ C13_Writes]_vars

\* C13 witness: one invocation went through every step, the creation of the
\* leaf block included, and another one aborted after its cable.
C13_Witness ==
    /\ pc[1] = "done"
    /\ Len(log[1]) = 6
    /\ pc[2] = "aborted"
    /\ Len(log[2]) = 3

\* The invocations that have an address of the k-th sub-block bound to one
\* of their two interfaces.
HoldersOf(k) ==
    { r \in Runs :
         \E i \in 1..Len(addresses) :
            /\ addresses[i].address \in {LowerOf(k), UpperOf(k)}
            /\ addresses[i].interfaces \cap {local[r].iface1, local[r].iface2} # {} }

\* The invocation aborted between the creation of its first address and the
\* creation of its second.
Burnt(r) == pc[r] = "aborted" /\ local[r].ip1 # 0 /\ local[r].ip2 = 0

\* C14: after any sequence of invocations, each completed or aborted at any
\* step: no address value is stored twice, no sub-block has addresses bound
\* to interfaces of two invocations, no interface is an end of two cables,
\* and no interface has two addresses.
C14_NonOverlapping ==
    /\ \A i \in 1..Len(addresses), j \in 1..Len(addresses) :
          addresses[i].address = addresses[j].address => i = j
    /\ \A k \in SubIndex : Cardinality(HoldersOf(k)) <= 1
    /\ \A f \in interfaces :
          Cardinality({ c \in cables : f \in {c.termination_a, c.termination_b} }) <= 1
    /\ \A c \in cables : c.termination_a # c.termination_b
    /\ \A f \in interfaces :
          Cardinality({ i \in 1..Len(addresses) : f \in addresses[i].interfaces }) <= 1
    /\ \A i \in 1..Len(addresses) : Cardinality(addresses[i].interfaces) <= 1

\* C14 witness: an invocation aborted with one address of its sub-block
\* stored, and the next one completed.
C14_Witness ==
    /\ Burnt(1)
    /\ local[1].iface1 \in addresses[local[1].ip1].interfaces
    /\ pc[2] = "done"

\* A step of the search of invocation r, the one that ends it with a
\* sub-block included, writes nothing to the store.
C15_SearchStep(r) ==
    (pc[r] \in {"search_a", "search_b"}
     /\ << pc'[r], local'[r] >> # << pc[r], local[r] >>) => store' = store

\* An invocation whose search has ended holds the sub-block in its locals
\* only: it has stored no address, and no stored address is bound to its
\* interfaces.
C15_Unmarked(r) ==
    pc[r] \in Chosen =>
       /\ local[r].ip1 = 0
       /\ local[r].ip2 = 0
       /\ \A i \in 1..Len(addresses) :
             addresses[i].interfaces \cap {local[r].iface1, local[r].iface2} = {}

\* C15: nothing in run() closes the gap between finding a free sub-block
\* and creating its addresses: the search reads the store and writes
\* nothing, and the sub-block it ends with is kept in the invocation's
\* locals alone until the first address is created, so another invocation
\* can end its search with the same sub-block (the witness).
C15_CheckThenAct ==
    [][\A r \in Runs : C15_SearchStep(r) /\ C15_Unmarked(r)']_vars

\* C15 witness: two concurrent invocations have both ended their search
\* with the same sub-block, and no address of it is stored.
C15_Witness ==
    /\ pc[1] \in Chosen
    /\ pc[2] \in Chosen
    /\ local[1].candidate_subnet_str = local[2].candidate_subnet_str
    /\ local[1].candidate_ip_a \notin Assigned
    /\ local[1].candidate_ip_b \notin Assigned

\* The log entries with message m of invocation r, and of all invocations.
EntriesOf(r, m) == { i \in 1..Len(log[r]) : log[r][i].msg = m }
Entries(m) == { p \in Runs \X (1..6) : p[2] \in EntriesOf(p[1], m) }

\* The stored /31 prefixes.
LeafBlocks == { i \in 1..Len(prefixes) : prefixes[i].prefix[5] = NewPrefix }

\* The records in the store are the ones the invocations created, one per
\* successful creation step: no creation took a record that was there.
C16_Counts ==
    /\ Cardinality(devices) = Cardinality(Entries("Created device"))
    /\ Cardinality(cables) = Cardinality(Entries("Connected interfaces with cable"))
    /\ Cardinality(LeafBlocks) = Cardinality(Entries("Created /31 prefix"))
    /\ Len(addresses) = Cardinality({ r \in Runs : local[r].ip1 # 0 })
                        + Cardinality({ r \in Runs : local[r].ip2 # 0 })
    /\ \A r \in Runs, q \in Runs :
          r # q => \A i \in EntriesOf(r, "Created device"),
                      j \in EntriesOf(q, "Created device") :
                         log[r][i].object # log[q][j].object
    /\ \A r \in Runs :
          /\ Cardinality(EntriesOf(r, "Created device")) <= 2
          /\ Cardinality(EntriesOf(r, "Connected interfaces with cable")) <= 1
          /\ Cardinality(EntriesOf(r, "Created /31 prefix")) <= 1
          /\ pc[r] = "done" =>
                /\ Cardinality(EntriesOf(r, "Created device")) = 2
                /\ Cardinality(OwnDevices(r)) = 2
                /\ Cardinality(EntriesOf(r, "Connected interfaces with cable")) = 1
                /\ Cardinality(OwnCables(r)) = 1
                /\ local[r].ip1 # 0 /\ local[r].ip2 # 0
                /\ local[r].ip1 # local[r].ip2

\* One step adds at most one record of one kind and leaves every record
\* that is stored as it is; the only change to a stored record is the
\* binding of an address, so far unbound, that the invocation itself created
\* to its own interface.
C16_Frame ==
    /\ statuses' = statuses
    /\ devices \subseteq devices'
    /\ Cardinality(devices' \ devices) <= 1
    /\ interfaces \subseteq interfaces'
    /\ \A f \in interfaces' \ interfaces :
          \E d \in devices' \ devices : f.device = d.name
    /\ cables \subseteq cables'
    /\ Cardinality(cables' \ cables) <= 1
    /\ Len(prefixes') \in {Len(prefixes), Len(prefixes) + 1}
    /\ \A i \in 1..Len(prefixes) : prefixes'[i] = prefixes[i]
    /\ Len(addresses') \in {Len(addresses), Len(addresses) + 1}
    /\ \A i \in 1..Len(addresses) :
          \/ addresses'[i] = addresses[i]
          \/ \E r \in Runs :
                /\ \/ pc[r] = "ip1_add" /\ i = local[r].ip1
                         /\ addresses'[i].interfaces = {local[r].iface1}
                   \/ pc[r] = "ip2_add" /\ i = local[r].ip2
                         /\ addresses'[i].interfaces = {local[r].iface2}
                /\ pc'[r] # pc[r]
                /\ addresses[i].interfaces = {}
                /\ addresses'[i].address = addresses[i].address
                /\ addresses'[i].status = addresses[i].status
    /\ Len(addresses') > Len(addresses) =>
          addresses'[Len(addresses')].interfaces = {}

\* C16: records are create-only: an invocation that completes has created
\* exactly two new devices, one cable, at most one leaf block and two
\* addresses; every creation adds a record that was not there (a stored
\* device is never taken in its place); and no step changes or deletes a
\* stored record, but for binding the invocation's two new addresses.
C16_CreateOnly == [][C16_Frame /\ C16_Counts']_vars

\* C16 witness: two invocations completed one after the other; the store
\* holds four devices, two cables, two leaf blocks and four addresses.
C16_Witness ==
    /\ pc[1] = "done"
    /\ pc[2] = "done"
    /\ Cardinality(devices) = 4
    /\ Cardinality(cables) = 2
    /\ Cardinality(LeafBlocks) = 2
    /\ Len(addresses) = 4

\* A step of the search that goes on to another candidate takes the next
\* sub-block of the pool, which exists: no sub-block is examined twice.
C17_OnePass ==
    (pc[1] \in {"search_a", "search_b"} /\ pc'[1] = "search_a"
     /\ local'[1] # local[1]) =>
       /\ local'[1].cand = local[1].cand + 1
       /\ local'[1].cand < NumSub

\* C17: in any store, an invocation each of whose ORM calls returns ends:
\* it reaches "done" (the summary is returned) or "aborted"; its search
\* goes through the sub-blocks of the pool once, in ascending order,
\* whatever addresses are assigned.
C17_Terminates ==
    /\ <>(pc[1] \in {"done", "aborted"})
    /\ [][C17_OnePass]_vars
    /\ [](pc[1] = "done" => Len(output[1]) = 3)

\* C17 witness: the search went through the whole pool, every sub-block of
\* which has exactly one assigned address, and the invocation ended.
C17_Witness ==
    /\ pc[1] = "aborted"
    /\ err[1].type = "Exception"
    /\ local[1].cand = NumSub - 1
    /\ \A k \in SubIndex : (LowerOf(k) \in Assigned) # (UpperOf(k) \in Assigned)

\* C18: when an invocation aborted after it created the first address of
\* its sub-block and before it created the second, the first address stays
\* stored and the second is never created; no later invocation ends its
\* search with that sub-block; and the next invocation, run after it, ends
\* its search with the sub-block right above it.
C18_BurntSubBlock ==
    \A r \in Runs :
       Burnt(r) =>
          /\ Cardinality(RecordsOf(local[r].candidate_ip_a)) = 1
          /\ RecordsOf(local[r].candidate_ip_b) = {}
          /\ \A q \in Runs :
                (q > r /\ pc[q] \in AfterSearch) =>
                   /\ local[q].candidate_subnet_str # local[r].candidate_subnet_str
                   /\ local[q].candidate_ip_b # local[r].candidate_ip_b
                   /\ local[q].cand > local[r].cand
                   /\ q = r + 1 =>
                         /\ local[q].cand = local[r].cand + 1
                         /\ local[q].candidate_subnet_str = LowerOf(local[r].cand + 1)

\* C18 witness: the first invocation aborted with its first address stored
\* and not yet bound; the second one completed with the second sub-block.
C18_Witness ==
    /\ Burnt(1)
    /\ addresses[local[1].ip1].interfaces = {}
    /\ pc[2] = "done"
    /\ local[2].candidate_subnet_str = LowerOf(1)

\* The leaf block of the k-th sub-block was in the store before the
\* invocation: somebody else created it.
LeafBefore(k) ==
    \E i \in 1..Len(prefixes) :
       /\ prefixes[i].prefix = LowerOf(k)
       /\ prefixes[i].description = "other"

\* The stored blocks with the CIDR of the k-th sub-block.
LeavesOf(k) == { i \in 1..Len(prefixes) : prefixes[i].prefix = LowerOf(k) }

\* C19: when the leaf block of the first free sub-block is in the store
\* before the invocation, the search still ends with that sub-block; the
\* leaf step takes the stored block, creates none and does not fail; and a
\* completed invocation has stored both addresses and bound them to its
\* two interfaces.
C19_LeafReused ==
    /\ \A k \in SubIndex :
          (pc[1] \in Chosen /\ LeafBefore(k) /\ FreeSub(k)
           /\ \A j \in SubIndex : j < k => ~FreeSub(j)) => local[1].cand = k
    /\ (pc[1] \in AfterSearch /\ LeafBefore(local[1].cand)) =>
          /\ pc[1] # "subnet_create"
          /\ Cardinality(LeavesOf(local[1].cand)) = 1
          /\ EntriesOf(1, "Created /31 prefix") = {}
          /\ pc[1] # "subnet_get" =>
                /\ local[1].subnet \in LeavesOf(local[1].cand)
                /\ prefixes[local[1].subnet].description = "other"
          /\ pc[1] = "done" =>
                /\ addresses[local[1].ip1].address = LowerOf(local[1].cand)
                /\ addresses[local[1].ip1].interfaces = {local[1].iface1}
                /\ addresses[local[1].ip2].address = UpperOf(local[1].cand)
                /\ addresses[local[1].ip2].interfaces = {local[1].iface2}
    /\ err[1].type # "ValidationError"

\* C19 witness: the store held the leaf blocks of both sub-blocks and an
\* address of the first; the invocation completed with the second
\* sub-block and its stored leaf block.
C19_Witness ==
    /\ pc[1] = "done"
    /\ local[1].cand = 1
    /\ LeafBefore(1)
    /\ local[1].subnet \in LeavesOf(1)

====
